---------------------------- MODULE Spec2Model ----------------------------
(***************************************************************************)
(* Model of the two batch scripts of EnSenas-App/data-utils:               *)
(*   scripts/classify_meaningful_images.py  (Pipeline A)                   *)
(*   scripts/extractimages.py               (Pipeline B)                   *)
(* Texts are sequences of one-character strings; characters outside ASCII  *)
(* are written by name ("i_acute", "dotless_i").                           *)
(***************************************************************************)
EXTENDS Integers, Sequences, FiniteSets, TLC

VARIABLES
    \* is_meaningful_image called on its own
    clsOutcome,        \* what client.chat.completions.create does for the call
    clsReturn,         \* what is_meaningful_image gave back
    clsDone,           \* the call has been made
    \* classify_meaningful_images.py: main / process_images
    pcA,               \* position of main(): "start", "loop", "returned", "exited"
    inputIsDir,        \* os.path.isdir(input_folder)
    entries,           \* input_path.iterdir(), in enumeration order (file names)
    idx,               \* position of the for loop in entries (1-based)
    processed_count,
    meaningful_count,
    outputDirMade,     \* os.makedirs(output_folder) was executed by this run
    outputDir,         \* names copied into the output folder by this run
    fileLog,           \* per entry: what the run did with it
    summary,           \* the three numbers of the final report, or NoSummary
    errorReported,     \* main printed "Error en la ejecucion del script"
    exitStatus,        \* process exit status, -1 while running
    \* invert_image called on its own
    pcInv,             \* "new", "once", "twice"
    bilevelOk,         \* the installed ImageOps.invert handles mode "1"
    imgIn,             \* the image invert_image is given
    imgOnce,           \* invert_image(imgIn)
    imgTwice,          \* invert_image(invert_image(imgIn))
    \* extractimages.py: main / extract_images_from_pdf
    pcB,               \* "main", "call", "extract", "done"
    pdf_path,          \* name of the PDF being processed
    output_dir,        \* folder the images of this PDF go to
    pages,             \* per page, the length of page.get_images()
    page_num,          \* 0-based, as in the code
    img_index,         \* 0-based, as in the code
    image_count,
    written,           \* file names written into output_dir for this PDF
    imgLog,            \* per (page, index), 1-based: what was done with it
    lastResult         \* how the last extract_images_from_pdf call ended

varsCls == <<clsOutcome, clsReturn, clsDone>>
varsA == <<pcA, inputIsDir, entries, idx, processed_count, meaningful_count,
           outputDirMade, outputDir, fileLog, summary, errorReported,
           exitStatus>>
varsInv == <<pcInv, bilevelOk, imgIn, imgOnce, imgTwice>>
varsB == <<pcB, pdf_path, output_dir, pages, page_num, img_index, image_count,
           written, imgLog, lastResult>>
vars == <<varsCls, varsA, varsInv, varsB>>

----------------------------------------------------------------------------
(* Bounds *)

MaxLen == 4
MaxFiles == 3
MaxPixels == 2
MaxPages == 2
MaxImages == 3
NameRange == 12

----------------------------------------------------------------------------
(* Text helpers: str.strip(), str.upper(), str.lower() *)

\* Characters str.strip() removes (str.isspace()), as far as the model's
\* alphabet goes.
Whitespace == {" ", "\n", "\t"}

\* str.upper() per character. The dotless i upper-cases to the ASCII "I".
UpperChar(c) ==
    CASE c = "s" -> "S"
      [] c = "i" -> "I"
      [] c = "n" -> "N"
      [] c = "o" -> "O"
      [] c = "c" -> "C"
      [] c = "l" -> "L"
      [] c = "a" -> "A"
      [] c = "r" -> "R"
      [] c = "i_acute" -> "I_ACUTE"
      [] c = "dotless_i" -> "I"
      [] OTHER -> c

upper(s) == [k \in 1..Len(s) |-> UpperChar(s[k])]

RECURSIVE lstrip(_)
lstrip(s) ==
    IF s # <<>> /\ Head(s) \in Whitespace THEN lstrip(Tail(s)) ELSE s

RECURSIVE rstrip(_)
rstrip(s) ==
    IF s # <<>> /\ s[Len(s)] \in Whitespace
    THEN rstrip(SubSeq(s, 1, Len(s) - 1))
    ELSE s

\* a mutant of strip: only the leading whitespace is removed
strip_leading_only(s) == lstrip(s)

strip(s) == rstrip(lstrip(s))

----------------------------------------------------------------------------
(* is_meaningful_image *)

SI == <<"S", "I">>

\* Outcomes of client.chat.completions.create(...): the call raises, or it
\* returns a response whose choices hold message contents (None or a text).
ApiRaises == [raised |-> TRUE, choices |-> <<>>]
ApiResponse(cs) == [raised |-> FALSE, choices |-> cs]
NoneContent == [none |-> TRUE, text |-> <<>>]
Content(t) == [none |-> FALSE, text |-> t]

\* What a call of is_meaningful_image gives its caller: a value, or an
\* exception (raised); logged is the print of the except branch.
Returned(v, l) == [raised |-> FALSE, value |-> v, logged |-> l]
Propagated == [raised |-> TRUE, value |-> FALSE, logged |-> FALSE]

\* a mutant of is_meaningful_image: no try/except around the request
is_meaningful_image_no_except(outcome) ==
    IF outcome.raised \/ outcome.choices = <<>> \/ outcome.choices[1].none
    THEN Propagated
    ELSE Returned(upper(strip(outcome.choices[1].text)) = SI, FALSE)

is_meaningful_image(outcome) ==
    IF outcome.raised
    THEN Returned(FALSE, TRUE)                 \* create() raised
    ELSE IF outcome.choices = <<>>
    THEN Returned(FALSE, TRUE)                 \* choices[0]: IndexError
    ELSE IF outcome.choices[1].none
    THEN Returned(FALSE, TRUE)                 \* None.strip(): AttributeError
    ELSE Returned(upper(strip(outcome.choices[1].text)) = SI, FALSE)

Alphabet == {"S", "s", "I", "i", "dotless_i", "i_acute", "N", "O", " ", "\n"}

Texts(n) == UNION {[1..k -> Alphabet] : k \in 0..n}

\* The responses is_meaningful_image is tried on: every text up to n
\* characters as the only choice, the shorter ones also followed by a second
\* choice, and the failing calls.
ClassifyInputs(n) ==
    {ApiRaises, ApiResponse(<<>>), ApiResponse(<<NoneContent>>)}
    \cup {ApiResponse(<<Content(t)>>) : t \in Texts(n)}
    \cup {ApiResponse(<<Content(t), Content(SI)>>) : t \in Texts(n - 2)}

----------------------------------------------------------------------------
(* process_images and main of classify_meaningful_images.py *)

VALID_IMAGE_EXTENSIONS ==
    { <<".", "j", "p", "g">>, <<".", "j", "p", "e", "g">>,
      <<".", "p", "n", "g">>, <<".", "b", "m", "p">>, <<".", "g", "i", "f">> }

\* str.lower() per character
LowerChar(c) ==
    CASE c = "J" -> "j"
      [] c = "P" -> "p"
      [] c = "E" -> "e"
      [] c = "G" -> "g"
      [] c = "N" -> "n"
      [] c = "I" -> "i"
      [] c = "F" -> "f"
      [] c = "B" -> "b"
      [] c = "M" -> "m"
      [] OTHER -> c

lower(s) == [k \in 1..Len(s) |-> LowerChar(s[k])]

\* Position of the last "." of a name, 0 when it has none (str.rfind + 1).
RECURSIVE LastDot(_, _)
LastDot(name, k) ==
    IF k = 0 THEN 0
    ELSE IF name[k] = "." THEN k
    ELSE LastDot(name, k - 1)

\* pathlib's PurePath.suffix: the text from the last dot on, unless the dot
\* is the first or the last character of the name.
suffix(name) ==
    LET d == LastDot(name, Len(name))
    IN  IF 1 < d /\ d < Len(name) THEN SubSeq(name, d, Len(name)) ELSE <<>>

\* a mutant of IsValidImage: every entry that has an extension is taken
IsValidImage_any_extension(name) == suffix(name) # <<>>

\* line 132: file_path.suffix.lower() in VALID_IMAGE_EXTENSIONS
IsValidImage(name) == lower(suffix(name)) \in VALID_IMAGE_EXTENSIONS

\* File names a directory listing is drawn from.
SampleNames ==
    { <<"a", ".", "j", "p", "g">>,
      <<"b", ".", "J", "P", "E", "G">>,
      <<"c", ".", "P", "n", "g">>,
      <<"e", ".", "b", "m", "p">>,
      <<"f", ".", "G", "I", "F">>,
      <<"g", ".", "t", "x", "t">>,
      <<".", "p", "n", "g">> }

\* Remote outcomes process_images is run against.
SampleOutcomes ==
    { ApiRaises,
      ApiResponse(<<>>),
      ApiResponse(<<NoneContent>>),
      ApiResponse(<<Content(<<"S", "I">>)>>),
      ApiResponse(<<Content(<<" ", "s", "i", "\n">>)>>),
      ApiResponse(<<Content(<<"N", "O">>)>>),
      ApiResponse(<<Content(<<"s", "i", " ", "n", "o">>)>>),
      ApiResponse(<<Content(<<>>)>>),
      ApiResponse(<<Content(<<"S", "i_acute", " ", "c", "l", "a", "r", "o">>)>>) }

\* What may happen to one file: it cannot be read; or it is read, the remote
\* call has one of the sample outcomes and shutil.copy2 works or raises.
FileOutcomes ==
    { [readOk |-> FALSE, api |-> ApiRaises, copyOk |-> FALSE] }
    \cup [readOk : {TRUE}, api : SampleOutcomes, copyOk : BOOLEAN]

\* The remote call, or the reading of its response, failed.
CallFailed(api) ==
    api.raised \/ api.choices = <<>> \/ api.choices[1].none

\* Sequences of distinct names of length n
RECURSIVE Listings(_)
Listings(n) ==
    IF n = 0 THEN {<<>>}
    ELSE LET shorter == Listings(n - 1)
         IN  shorter \cup
             { Append(l, x) : l \in {m \in shorter : Len(m) = n - 1},
                              x \in SampleNames }

DistinctNames(l) == \A i, j \in 1..Len(l) : i # j => l[i] # l[j]

Untouched ==
    [attempts |-> 0, reads |-> 0, requests |-> 0, callFailed |-> FALSE,
     answer |-> "none", copyTried |-> FALSE, copied |-> FALSE, error |-> FALSE]

NoSummary == [printed |-> FALSE, processed |-> 0, meaningful |-> 0, discarded |-> 0]

\* lines 113-124: what process_images does before the loop.
\* raised: an exception leaves process_images; made: makedirs was executed.
\* a mutant: the output folder is made before the input folder is validated
process_images_setup_mkdir_first(isDir, clientOk, mkdirOk) ==
    IF ~mkdirOk THEN [raised |-> TRUE, made |-> FALSE]
    ELSE IF ~isDir THEN [raised |-> TRUE, made |-> TRUE]
    ELSE IF ~clientOk THEN [raised |-> TRUE, made |-> TRUE]
    ELSE [raised |-> FALSE, made |-> TRUE]

process_images_setup(isDir, clientOk, mkdirOk) ==
    IF ~isDir THEN [raised |-> TRUE, made |-> FALSE]          \* ValueError
    ELSE IF ~clientOk THEN [raised |-> TRUE, made |-> FALSE]  \* openai.OpenAI()
    ELSE IF ~mkdirOk THEN [raised |-> TRUE, made |-> FALSE]   \* os.makedirs
    ELSE [raised |-> FALSE, made |-> TRUE]

\* lines 133-149: the body of the loop for one allow-listed entry.
\* aborts: an exception leaves the loop; the other fields go to fileLog.
LoopResult(reads, requests, failed, answer, tried, copied, error, aborts) ==
    [log |-> [attempts |-> 1, reads |-> reads, requests |-> requests,
              callFailed |-> failed, answer |-> answer, copyTried |-> tried,
              copied |-> copied, error |-> error],
     aborts |-> aborts]

\* a mutant of loop_body: no try/except around the per-file work
loop_body_no_try(readOk, api, copyOk) ==
    IF ~readOk
    THEN LoopResult(1, 0, FALSE, "none", FALSE, FALSE, FALSE, TRUE)
    ELSE LET m == is_meaningful_image(api)
         IN  IF m.raised
             THEN LoopResult(1, 1, CallFailed(api), "none", FALSE, FALSE, FALSE, TRUE)
             ELSE IF m.value
             THEN IF copyOk
                  THEN LoopResult(1, 1, CallFailed(api), "true", TRUE, TRUE, FALSE, FALSE)
                  ELSE LoopResult(1, 1, CallFailed(api), "true", TRUE, FALSE, FALSE, TRUE)
             ELSE LoopResult(1, 1, CallFailed(api), "false", FALSE, FALSE, FALSE, FALSE)

\* a mutant of loop_body: the file is copied before it is classified
loop_body_copy_first(readOk, api, copyOk) ==
    IF ~readOk
    THEN LoopResult(1, 0, FALSE, "none", FALSE, FALSE, TRUE, FALSE)
    ELSE IF ~copyOk
    THEN LoopResult(1, 0, FALSE, "none", TRUE, FALSE, TRUE, FALSE)
    ELSE LET m == is_meaningful_image(api)
         IN  LoopResult(1, 1, CallFailed(api),
                        IF m.value THEN "true" ELSE "false",
                        TRUE, TRUE, FALSE, FALSE)

loop_body(readOk, api, copyOk) ==
    IF ~readOk
    THEN \* encode_image_to_base64 raises IOError, caught at line 148
         LoopResult(1, 0, FALSE, "none", FALSE, FALSE, TRUE, FALSE)
    ELSE LET m == is_meaningful_image(api)
         IN  IF m.raised
             THEN \* an exception out of is_meaningful_image, caught at line 148
                  LoopResult(1, 1, CallFailed(api), "none", FALSE, FALSE, TRUE, FALSE)
             ELSE IF m.value
             THEN IF copyOk
                  THEN LoopResult(1, 1, CallFailed(api), "true", TRUE, TRUE, FALSE, FALSE)
                  ELSE \* shutil.copy2 raises, caught at line 148
                       LoopResult(1, 1, CallFailed(api), "true", TRUE, FALSE, TRUE, FALSE)
             ELSE LoopResult(1, 1, CallFailed(api), "false", FALSE, FALSE, FALSE, FALSE)

InitA ==
    /\ pcA = "start"
    /\ inputIsDir \in BOOLEAN
    /\ entries \in {l \in Listings(MaxFiles) : DistinctNames(l)}
    /\ inputIsDir = FALSE => entries = <<>>
    /\ idx = 1
    /\ processed_count = 0
    /\ meaningful_count = 0
    /\ outputDirMade = FALSE
    /\ outputDir = {}
    /\ fileLog = [i \in 1..Len(entries) |-> Untouched]
    /\ summary = NoSummary
    /\ errorReported = FALSE
    /\ exitStatus = -1

IdleA ==
    /\ pcA = "idle"
    /\ inputIsDir = FALSE
    /\ entries = <<>>
    /\ idx = 1
    /\ processed_count = 0
    /\ meaningful_count = 0
    /\ outputDirMade = FALSE
    /\ outputDir = {}
    /\ fileLog = <<>>
    /\ summary = NoSummary
    /\ errorReported = FALSE
    /\ exitStatus = -1

\* main, lines 180-184: an exception out of process_images is reported and
\* the process exits with status 1.
MainCatches ==
    /\ pcA' = "exited"
    /\ errorReported' = TRUE
    /\ exitStatus' = 1

\* process_images, lines 113-128
Setup ==
    /\ pcA = "start"
    /\ \E clientOk \in BOOLEAN, mkdirOk \in BOOLEAN :
         LET r == process_images_setup(inputIsDir, clientOk, mkdirOk)
         IN  /\ outputDirMade' = r.made
             /\ IF r.raised
                THEN MainCatches
                ELSE /\ pcA' = "loop"
                     /\ UNCHANGED <<errorReported, exitStatus>>
    /\ UNCHANGED <<inputIsDir, entries, idx, processed_count, meaningful_count,
                   outputDir, fileLog, summary, varsCls, varsInv, varsB>>

\* one pass of the for loop over an entry outside the allow-list
SkipEntry ==
    /\ pcA = "loop"
    /\ idx <= Len(entries)
    /\ ~IsValidImage(entries[idx])
    /\ idx' = idx + 1
    /\ UNCHANGED <<pcA, inputIsDir, entries, processed_count, meaningful_count,
                   outputDirMade, outputDir, fileLog, summary, errorReported,
                   exitStatus, varsCls, varsInv, varsB>>

\* one pass of the for loop over an allow-listed entry, lines 133-149
ProcessEntry ==
    /\ pcA = "loop"
    /\ idx <= Len(entries)
    /\ IsValidImage(entries[idx])
    /\ \E o \in FileOutcomes :
         LET r == loop_body(o.readOk, o.api, o.copyOk)
         IN  /\ processed_count' = processed_count + 1
             /\ fileLog' = [fileLog EXCEPT ![idx] = r.log]
             /\ outputDir' = IF r.log.copied
                             THEN outputDir \cup {entries[idx]}
                             ELSE outputDir
             /\ meaningful_count' = IF r.log.copied /\ ~r.aborts
                                    THEN meaningful_count + 1
                                    ELSE meaningful_count
             /\ IF r.aborts
                THEN MainCatches /\ UNCHANGED idx
                ELSE /\ idx' = idx + 1
                     /\ UNCHANGED <<pcA, errorReported, exitStatus>>
    /\ UNCHANGED <<inputIsDir, entries, outputDirMade, summary, varsCls, varsInv, varsB>>

\* lines 151-155: the summary, after the last entry
PrintSummary ==
    /\ pcA = "loop"
    /\ idx > Len(entries)
    /\ summary' = [printed |-> TRUE,
                   processed |-> processed_count,
                   meaningful |-> meaningful_count,
                   discarded |-> processed_count - meaningful_count]
    /\ pcA' = "returned"
    /\ UNCHANGED <<inputIsDir, entries, idx, processed_count, meaningful_count,
                   outputDirMade, outputDir, fileLog, errorReported, exitStatus,
                   varsCls, varsInv, varsB>>

\* main ends after process_images returned: exit status 0
MainReturns ==
    /\ pcA = "returned"
    /\ pcA' = "exited"
    /\ exitStatus' = 0
    /\ UNCHANGED <<inputIsDir, entries, idx, processed_count, meaningful_count,
                   outputDirMade, outputDir, fileLog, summary, errorReported,
                   varsCls, varsInv, varsB>>

NextA == Setup \/ SkipEntry \/ ProcessEntry \/ PrintSummary \/ MainReturns


----------------------------------------------------------------------------
(* invert_image of extractimages.py *)

\* An image is its mode and its pixels, each pixel a tuple of band values.
Modes == {"1", "L", "LA", "P", "RGB", "RGBA"}

NumBands(mode) ==
    CASE mode = "RGBA" -> 4
      [] mode = "RGB" -> 3
      [] mode = "LA" -> 2
      [] OTHER -> 1

\* 8-bit sample values the images are drawn from; mode "1" holds 0 or 255.
PixelValues == {0, 100, 255}
BandValues(mode) == IF mode = "1" THEN {0, 255} ELSE PixelValues

NewImage(mode, pixels) == [mode |-> mode, pixels |-> pixels]

\* Image.split(): band k of an image; Image.merge(): an image from bands.
Band(image, k) == [i \in 1..Len(image.pixels) |-> image.pixels[i][k]]

merge(mode, bands) ==
    NewImage(mode,
             [i \in 1..Len(bands[1]) |-> [k \in 1..Len(bands) |-> bands[k][i]]])

\* A call that gives an image, or raises.
Gives(image) == [raised |-> FALSE, image |-> image]
Raises == [raised |-> TRUE, image |-> NewImage("none", <<>>)]

\* a mutant of lut: the table is built from 256 - i and clipped to a byte
lut_clipped(v) == IF 256 - v > 255 THEN 255 ELSE 256 - v

\* ImageOps.invert's lookup table: lut[i] = 255 - i
lut(v) == 255 - v

point(image) ==
    NewImage(image.mode,
             [i \in 1..Len(image.pixels) |->
                [k \in 1..Len(image.pixels[i]) |-> lut(image.pixels[i][k])]])

\* PIL's ImageOps.invert as invert_image calls it: modes "L" and "RGB" go
\* through the table, mode "1" too where the installed Pillow handles it,
\* every other mode raises (NotImplementedError for "P", OSError otherwise).
ImageOps_invert(image, handlesBilevel) ==
    IF image.mode \in {"L", "RGB"} THEN Gives(point(image))
    ELSE IF image.mode = "1" /\ handlesBilevel THEN Gives(point(image))
    ELSE Raises

\* a mutant of invert_image: the image is inverted whole, alpha included
invert_image_all_bands(image, handlesBilevel) ==
    IF image.mode = "RGBA"
    THEN Gives(point(image))
    ELSE ImageOps_invert(image, handlesBilevel)

invert_image(image, handlesBilevel) ==
    IF image.mode = "RGBA"
    THEN LET a == Band(image, 4)
             rgb_image == merge("RGB", <<Band(image, 1), Band(image, 2), Band(image, 3)>>)
             inverted_rgb == ImageOps_invert(rgb_image, handlesBilevel)
         IN  IF inverted_rgb.raised THEN Raises
             ELSE Gives(merge("RGBA", <<Band(inverted_rgb.image, 1),
                                        Band(inverted_rgb.image, 2),
                                        Band(inverted_rgb.image, 3), a>>))
    ELSE ImageOps_invert(image, handlesBilevel)

InitInv ==
    /\ pcInv = "new"
    /\ \E m \in Modes, n \in 1..MaxPixels :
         \E px \in [1..n -> [1..NumBands(m) -> BandValues(m)]] :
             imgIn = NewImage(m, px)
    \* the installed Pillow only matters to a bilevel image
    /\ bilevelOk \in (IF imgIn.mode = "1" THEN BOOLEAN ELSE {TRUE})
    /\ imgOnce = Raises
    /\ imgTwice = Raises

IdleInv ==
    /\ pcInv = "idle"
    /\ bilevelOk = FALSE
    /\ imgIn = NewImage("none", <<>>)
    /\ imgOnce = Raises
    /\ imgTwice = Raises

InvertOnce ==
    /\ pcInv = "new"
    /\ imgOnce' = invert_image(imgIn, bilevelOk)
    /\ pcInv' = "once"
    /\ UNCHANGED <<bilevelOk, imgIn, imgTwice, varsCls, varsA, varsB>>

InvertAgain ==
    /\ pcInv = "once"
    /\ ~imgOnce.raised
    /\ imgTwice' = invert_image(imgOnce.image, bilevelOk)
    /\ pcInv' = "twice"
    /\ UNCHANGED <<bilevelOk, imgIn, imgOnce, varsCls, varsA, varsB>>

NextInv == InvertOnce \/ InvertAgain

----------------------------------------------------------------------------
(* extract_images_from_pdf and main of extractimages.py *)

DigitChar == <<"0", "1", "2", "3", "4", "5", "6", "7", "8", "9">>

\* str(n) for a natural number
RECURSIVE Digits(_)
Digits(n) ==
    IF n < 10 THEN <<DigitChar[n + 1]>>
    ELSE Append(Digits(n \div 10), DigitChar[(n % 10) + 1])

\* Extensions extract_image reports
Exts == {"png", "jpeg"}

\* a mutant of image_filename: the 0-based loop variables are used as they are
image_filename_zero_based(pn, ii, ext) ==
    <<"imagen_pagina">> \o Digits(pn) \o <<"_">> \o Digits(ii) \o <<".", ext>>

\* line 61: f"imagen_pagina{page_num + 1}_{img_index + 1}.{image_ext}"
image_filename(pn, ii, ext) ==
    <<"imagen_pagina">> \o Digits(pn + 1) \o <<"_">> \o Digits(ii + 1) \o <<".", ext>>

\* Path(pdf_path).stem: the name without its suffix
stem(name) == SubSeq(name, 1, Len(name) - Len(suffix(name)))

\* Names Path('.').glob('*.pdf') yields
SamplePdfs ==
    { <<"a", ".", "p", "d", "f">>,
      <<"b", ".", "c", ".", "p", "d", "f">> }

RECURSIVE SumSeq(_)
SumSeq(s) == IF s = <<>> THEN 0 ELSE Head(s) + SumSeq(Tail(s))

\* Documents: up to MaxPages pages holding up to MaxImages images together
Structures ==
    { s \in UNION {[1..n -> 0..MaxImages] : n \in 0..MaxPages} :
        SumSeq(s) <= MaxImages }

Positions(pp) == {<<p, i>> : p \in 1..Len(pp), i \in 1..MaxImages} \cap
                 {q \in (1..Len(pp)) \X (1..MaxImages) : q[2] <= pp[q[1]]}

NotVisited ==
    [visited |-> FALSE, extracted |-> "none", decoded |-> FALSE,
     inverted |-> FALSE, saved |-> FALSE, logged |-> FALSE, name |-> <<>>]

NoResult == [kind |-> "none", count |-> 0, reported |-> FALSE]

ImageResult(extracted, decoded, inverted, saved, logged, name, aborts) ==
    [log |-> [visited |-> TRUE, extracted |-> extracted, decoded |-> decoded,
              inverted |-> inverted, saved |-> saved, logged |-> logged,
              name |-> name],
     aborts |-> aborts]

\* lines 46-71: the body of the inner loop for one entry of image_list.
\*   extract: pdf_document.extract_image(xref) gives "ok", "empty" or "raise"
\*   openOk : Image.open succeeds;  mode: the opened image's mode
\*   saveOk : inverted_image.save succeeds
process_image(pn, ii, extract, ext, openOk, mode, handlesBilevel, saveOk) ==
    IF extract = "raise"
    THEN \* line 47 is outside the try: the exception leaves the function
         ImageResult("raise", FALSE, FALSE, FALSE, FALSE, <<>>, TRUE)
    ELSE IF extract = "empty"
    THEN \* line 49: a falsy base_image is passed over without a message
         ImageResult("empty", FALSE, FALSE, FALSE, FALSE, <<>>, FALSE)
    ELSE IF ~openOk
    THEN ImageResult("ok", FALSE, FALSE, FALSE, TRUE, <<>>, FALSE)
    ELSE IF invert_image(NewImage(mode, <<>>), handlesBilevel).raised
    THEN ImageResult("ok", TRUE, FALSE, FALSE, TRUE, <<>>, FALSE)
    ELSE IF ~saveOk
    THEN ImageResult("ok", TRUE, TRUE, FALSE, TRUE, <<>>, FALSE)
    ELSE ImageResult("ok", TRUE, TRUE, TRUE, FALSE,
                     image_filename(pn, ii, ext), FALSE)

InitB ==
    /\ pcB = "main"
    /\ pdf_path = <<>>
    /\ output_dir = <<>>
    /\ pages = <<>>
    /\ page_num = 0
    /\ img_index = 0
    /\ image_count = 0
    /\ written = {}
    /\ imgLog = [q \in {} |-> NotVisited]
    /\ lastResult = NoResult

IdleB ==
    /\ pcB = "idle"
    /\ pdf_path = <<>>
    /\ output_dir = <<>>
    /\ pages = <<>>
    /\ page_num = 0
    /\ img_index = 0
    /\ image_count = 0
    /\ written = {}
    /\ imgLog = [q \in {} |-> NotVisited]
    /\ lastResult = NoResult

\* main, lines 91-92: an exception out of extract_images_from_pdf is printed
\* and the loop goes on with the next PDF.
MainCatchesPdf ==
    /\ pcB' = "main"
    /\ lastResult' = [kind |-> "raised", count |-> 0, reported |-> TRUE]

\* main, lines 86-87: the loop takes the next PDF of the listing
NextPdf ==
    /\ pcB = "main"
    /\ \E name \in SamplePdfs : pdf_path' = name
    /\ pcB' = "call"
    /\ output_dir' = <<>>
    /\ pages' = <<>>
    /\ page_num' = 0
    /\ img_index' = 0
    /\ image_count' = 0
    /\ written' = {}
    /\ imgLog' = [q \in {} |-> NotVisited]
    /\ lastResult' = NoResult
    /\ UNCHANGED <<varsCls, varsA, varsInv>>

\* extract_images_from_pdf, lines 27-35: the folder is made, the PDF opened
OpenPdf ==
    /\ pcB = "call"
    /\ \E mkdirOk \in BOOLEAN, openOk \in BOOLEAN, doc \in Structures :
         /\ output_dir' = IF mkdirOk THEN stem(pdf_path) ELSE <<>>
         /\ IF mkdirOk /\ openOk
            THEN /\ pages' = doc
                 /\ imgLog' = [q \in Positions(doc) |-> NotVisited]
                 /\ pcB' = "extract"
                 /\ UNCHANGED lastResult
            ELSE /\ MainCatchesPdf
                 /\ UNCHANGED <<pages, imgLog>>
    /\ UNCHANGED <<pdf_path, page_num, img_index, image_count, written,
                   varsCls, varsA, varsInv>>

\* What the libraries may do with one embedded image
ImageOutcomes ==
    { [extract |-> x, ext |-> "png", openOk |-> FALSE, mode |-> "RGB",
       handlesBilevel |-> FALSE, saveOk |-> FALSE] : x \in {"raise", "empty", "ok"} }
    \cup
    [extract : {"ok"}, ext : Exts, openOk : {TRUE}, mode : Modes,
     handlesBilevel : BOOLEAN, saveOk : BOOLEAN]

\* one pass of the inner loop, lines 45-71
ProcessImage ==
    /\ pcB = "extract"
    /\ page_num < Len(pages)
    /\ img_index < pages[page_num + 1]
    /\ \E o \in ImageOutcomes :
         LET r == process_image(page_num, img_index, o.extract, o.ext, o.openOk,
                                o.mode, o.handlesBilevel, o.saveOk)
         IN  /\ imgLog' = [imgLog EXCEPT ![<<page_num + 1, img_index + 1>>] = r.log]
             /\ written' = IF r.log.saved THEN written \cup {r.log.name} ELSE written
             /\ image_count' = IF r.log.saved THEN image_count + 1 ELSE image_count
             /\ IF r.aborts
                THEN MainCatchesPdf /\ UNCHANGED img_index
                ELSE /\ img_index' = img_index + 1
                     /\ UNCHANGED <<pcB, lastResult>>
    /\ UNCHANGED <<pdf_path, output_dir, pages, page_num, varsCls, varsA, varsInv>>

\* the inner loop is exhausted: next pass of the loop over the pages
NextPage ==
    /\ pcB = "extract"
    /\ page_num < Len(pages)
    /\ img_index = pages[page_num + 1]
    /\ page_num' = page_num + 1
    /\ img_index' = 0
    /\ UNCHANGED <<pcB, pdf_path, output_dir, pages, image_count, written,
                   imgLog, lastResult, varsCls, varsA, varsInv>>

\* lines 73-74 and main line 90: the count is returned and printed
ReturnCount ==
    /\ pcB = "extract"
    /\ page_num = Len(pages)
    /\ lastResult' = [kind |-> "returned", count |-> image_count, reported |-> TRUE]
    /\ pcB' = "main"
    /\ UNCHANGED <<pdf_path, output_dir, pages, page_num, img_index, image_count,
                   written, imgLog, varsCls, varsA, varsInv>>

\* main: no PDF is left (or none was found)
MainEnds ==
    /\ pcB = "main"
    /\ pcB' = "done"
    /\ UNCHANGED <<pdf_path, output_dir, pages, page_num, img_index, image_count,
                   written, imgLog, lastResult, varsCls, varsA, varsInv>>

NextB == NextPdf \/ OpenPdf \/ ProcessImage \/ NextPage \/ ReturnCount \/ MainEnds

----------------------------------------------------------------------------
(* is_meaningful_image on its own *)

InitCls ==
    /\ clsOutcome \in ClassifyInputs(MaxLen)
    /\ clsReturn = Returned(FALSE, FALSE)
    /\ clsDone = FALSE

IdleCls ==
    /\ clsOutcome = ApiRaises
    /\ clsReturn = Returned(FALSE, FALSE)
    /\ clsDone = FALSE

Classify ==
    /\ ~clsDone
    /\ clsReturn' = is_meaningful_image(clsOutcome)
    /\ clsDone' = TRUE
    /\ UNCHANGED <<clsOutcome, varsA, varsInv, varsB>>

NextCls == Classify

----------------------------------------------------------------------------
(* Specifications *)

InitSpecCls == InitCls /\ IdleA /\ IdleInv /\ IdleB
SpecCls == InitSpecCls /\ [][NextCls]_vars

InitSpecA == InitA /\ IdleCls /\ IdleInv /\ IdleB
SpecA == InitSpecA /\ [][NextA]_vars

InitSpecInv == InitInv /\ IdleCls /\ IdleA /\ IdleB
SpecInv == InitSpecInv /\ [][NextInv]_vars

InitSpecB == InitB /\ IdleCls /\ IdleA /\ IdleInv
SpecB == InitSpecB /\ [][NextB]_vars

----------------------------------------------------------------------------
(* Properties of is_meaningful_image and of Pipeline A *)

\* The text is "SI" in any letter case with nothing but whitespace around it,
\* said position by position.
SpellsSI(t) ==
    \E a \in 1..Len(t) :
        /\ a + 1 <= Len(t)
        /\ t[a] \in {"s", "S"}
        /\ t[a + 1] \in {"i", "I", "dotless_i"}
        /\ \A k \in 1..Len(t) : k \notin {a, a + 1} => t[k] \in {" ", "\n", "\t"}

\* C1: is_meaningful_image returns true exactly when the text of the first
\* response choice, trimmed of surrounding whitespace and upper-cased, is
\* "SI"; for every other response text it returns false.
C1_TrueExactlyOnSI ==
    clsDone =>
        /\ ~clsReturn.raised
        /\ clsReturn.value =
             (~CallFailed(clsOutcome) /\ SpellsSI(clsOutcome.choices[1].text))

C1_Witness ==
    /\ clsDone
    /\ clsReturn.value
    /\ clsOutcome.choices = <<Content(<<" ", "s", "i", "\n">>)>>

CasePairs ==
    { <<"j", "J">>, <<"p", "P">>, <<"e", "E">>, <<"g", "G">>, <<"n", "N">>,
      <<"b", "B">>, <<"m", "M">>, <<"i", "I">>, <<"f", "F">> }

SameLetter(c, d) == c = d \/ <<c, d>> \in CasePairs

ExtAllowed(name) ==
    \E v \in { <<".", "j", "p", "g">>, <<".", "j", "p", "e", "g">>,
               <<".", "p", "n", "g">>, <<".", "b", "m", "p">>,
               <<".", "g", "i", "f">> } :
        /\ Len(name) > Len(v)
        /\ \A k \in 1..Len(v) : SameLetter(v[k], name[Len(name) - Len(v) + k])
        /\ \A k \in 2..Len(v) : name[Len(name) - Len(v) + k] # "."

AllowedUpTo(n) == {i \in 1..n : ExtAllowed(entries[i])}

\* C3: an entry whose lower-cased extension is outside the allow-list is
\* never read, never classified, never counted as processed and never copied.
C3_OthersUntouched ==
    /\ \A i \in 1..Len(entries) :
         ~ExtAllowed(entries[i]) =>
             fileLog[i] = Untouched /\ entries[i] \notin outputDir
    /\ processed_count = Cardinality(AllowedUpTo(idx - 1))

C3_Witness ==
    /\ pcA = "exited"
    /\ \E i, j, k \in 1..Len(entries) :
         /\ i < j /\ j < k
         /\ entries[i] = <<"g", ".", "t", "x", "t">>
         /\ entries[j] = <<".", "p", "n", "g">>
         /\ entries[k] = <<"b", ".", "J", "P", "E", "G">>
         /\ fileLog[k].copied
    /\ summary.processed = 1

\* C4: an exception while encoding, classifying or copying one file never
\* aborts the batch: every allow-listed entry is attempted once and the
\* summary is printed after the last entry.
C4_BatchNeverAborts ==
    /\ \A i \in 1..Len(entries) :
         /\ fileLog[i].attempts <= 1
         /\ fileLog[i].error => idx > i /\ (pcA = "exited" => exitStatus = 0)
    /\ (pcA = "exited" /\ outputDirMade) =>
         /\ summary.printed
         /\ exitStatus = 0
    /\ summary.printed =>
         /\ idx = Len(entries) + 1
         /\ \A i \in AllowedUpTo(Len(entries)) : fileLog[i].attempts = 1
    /\ pcA \in {"start", "loop", "returned"} => ENABLED NextA

C4_Witness ==
    /\ summary.printed
    /\ Len(entries) = 3
    /\ fileLog[1].error /\ fileLog[1].reads = 1 /\ fileLog[1].requests = 0
    /\ fileLog[2].error /\ fileLog[2].copyTried /\ ~fileLog[2].copied
    /\ fileLog[3].copied

\* C5 as stated: at the end of a run the files copied are exactly the
\* allow-listed files the classifier answered true for, processed is the
\* number of allow-listed entries, meaningful the number of files copied and
\* discarded their difference.
C5_AsStated ==
    summary.printed =>
        /\ outputDir = {entries[i] : i \in {j \in AllowedUpTo(Len(entries)) :
                                             fileLog[j].answer = "true"}}
        /\ summary.processed = Cardinality(AllowedUpTo(Len(entries)))
        /\ summary.meaningful = Cardinality(outputDir)
        /\ summary.discarded = summary.processed - summary.meaningful

\* C5, amended: the files copied are exactly the allow-listed files the
\* classifier answered true for and whose copy did not raise; the counts are
\* as stated.
C5_CopiedAndCounts ==
    summary.printed =>
        /\ outputDir = {entries[i] : i \in {j \in AllowedUpTo(Len(entries)) :
                                             /\ fileLog[j].answer = "true"
                                             /\ ~fileLog[j].error}}
        /\ summary.processed = Cardinality(AllowedUpTo(Len(entries)))
        /\ summary.meaningful = Cardinality(outputDir)
        /\ summary.discarded = summary.processed - summary.meaningful

C5_Witness ==
    /\ summary = [printed |-> TRUE, processed |-> 2, meaningful |-> 1,
                  discarded |-> 1]
    /\ entries = << <<"a", ".", "j", "p", "g">>, <<"c", ".", "P", "n", "g">>,
                    <<"g", ".", "t", "x", "t">> >>
    /\ fileLog[1].answer = "true"
    /\ fileLog[2].answer = "false" /\ ~fileLog[2].callFailed
    /\ outputDir = { <<"a", ".", "j", "p", "g">> }

\* C9: with an input folder that is no directory the run aborts before any
\* processing: no output folder, no read, no request, no summary, the error
\* is reported and the exit status is 1; when process_images returns, the
\* exit status is 0.
C9_InvalidInputAborts ==
    /\ (pcA # "start" /\ ~inputIsDir) =>
         /\ pcA = "exited"
         /\ exitStatus = 1
         /\ errorReported
         /\ ~outputDirMade
         /\ outputDir = {}
         /\ processed_count = 0
         /\ idx = 1
         /\ \A i \in 1..Len(entries) : fileLog[i] = Untouched
         /\ ~summary.printed
    /\ (pcA = "exited" /\ summary.printed) => exitStatus = 0 /\ ~errorReported
    /\ exitStatus = 0 => summary.printed
    /\ exitStatus \in {-1, 0, 1}

C9_Witness ==
    /\ pcA = "exited"
    /\ ~inputIsDir
    /\ exitStatus = 1
    /\ errorReported

----------------------------------------------------------------------------
(* Properties of invert_image *)

HasAlpha(mode) == mode \in {"LA", "RGBA"}

AlphaBand(image) == Band(image, NumBands(image.mode))

C10_InvertTwiceIsIdentity ==
    (pcInv # "new" /\ ~imgOnce.raised) =>
        /\ ~invert_image(imgOnce.image, bilevelOk).raised
        /\ pcInv = "twice" => (~imgTwice.raised /\ imgTwice.image = imgIn)

C10_Witness ==
    /\ pcInv = "twice"
    /\ imgIn.mode = "RGBA"
    /\ imgIn.pixels[1] = <<0, 100, 255, 0>>
    /\ imgOnce.image # imgIn
    /\ imgTwice.image = imgIn

----------------------------------------------------------------------------
(* Properties of Pipeline B *)

Saved == {q \in DOMAIN imgLog : imgLog[q].saved}

DigitValue(c) == CHOOSE d \in 0..9 : DigitChar[d + 1] = c

IsDigit(c) == \E d \in 0..9 : DigitChar[d + 1] = c

\* The number a sequence of digits writes, -1 when it is no decimal numeral
RECURSIVE NumeralValue(_)
NumeralValue(ds) ==
    IF ds = <<>> \/ \E k \in 1..Len(ds) : ~IsDigit(ds[k]) THEN -1
    ELSE IF Len(ds) > 1 /\ ds[1] = "0" THEN -1
    ELSE IF Len(ds) = 1 THEN DigitValue(ds[1])
    ELSE 10 * NumeralValue(SubSeq(ds, 1, Len(ds) - 1)) + DigitValue(ds[Len(ds)])

\* name reads imagen_pagina{p}_{i}.{e}
NameReads(name, p, i, e) ==
    /\ Len(name) >= 6
    /\ name[1] = "imagen_pagina"
    /\ name[Len(name)] = e
    /\ name[Len(name) - 1] = "."
    /\ \E u \in 3..(Len(name) - 3) :
         /\ name[u] = "_"
         /\ NumeralValue(SubSeq(name, 2, u - 1)) = p
         /\ NumeralValue(SubSeq(name, u + 1, Len(name) - 2)) = i

NamesDistinct(range) ==
    \A p1, i1, p2, i2 \in 1..range :
        <<p1, i1>> # <<p2, i2>> =>
            \A e1, e2 \in Exts :
                image_filename(p1 - 1, i1 - 1, e1) # image_filename(p2 - 1, i2 - 1, e2)

Returned_B == pcB = "main" /\ lastResult.kind = "returned"

\* C6 as stated: one output file per successfully decoded embedded image,
\* named imagen_pagina{page}_{index}.{ext}, and the returned count is the
\* number of files written.
C6_AsStated ==
    Returned_B =>
        /\ \A q \in DOMAIN imgLog :
             imgLog[q].decoded =>
                 \E e \in Exts, n \in written : NameReads(n, q[1], q[2], e)
        /\ Cardinality(written) =
             Cardinality({q \in DOMAIN imgLog : imgLog[q].decoded})
        /\ lastResult.count = Cardinality(written)

\* C6, amended: one output file per embedded image whose extraction, decoding,
\* inversion and saving all succeeded, in the folder named after the PDF's
\* base name, named imagen_pagina{page}_{index}.{ext} with both numbers
\* 1-based; distinct (page, index) never share a name; the returned count is
\* the number of files written.
C6_OneFilePerSavedImage ==
    /\ written = {imgLog[q].name : q \in Saved}
    /\ Cardinality(written) = Cardinality(Saved)
    /\ image_count = Cardinality(written)
    /\ \A q \in DOMAIN imgLog :
         /\ imgLog[q].saved <=>
              /\ imgLog[q].extracted = "ok" /\ imgLog[q].decoded
              /\ imgLog[q].inverted /\ ~imgLog[q].logged
         /\ imgLog[q].saved =>
              \E e \in Exts : NameReads(imgLog[q].name, q[1], q[2], e)
    /\ Returned_B =>
         /\ lastResult.count = Cardinality(written)
         /\ \A q \in DOMAIN imgLog : imgLog[q].visited
         /\ output_dir \o <<".", "p", "d", "f">> = pdf_path
    /\ pcB = "call" => NamesDistinct(NameRange)

C6_Witness ==
    /\ Returned_B
    /\ pages = <<1, 2>>
    /\ lastResult.count = 3
    /\ pdf_path = <<"b", ".", "c", ".", "p", "d", "f">>
    /\ output_dir = <<"b", ".", "c">>
    /\ written = { <<"imagen_pagina", "1", "_", "1", ".", "png">>,
                   <<"imagen_pagina", "2", "_", "1", ".", "jpeg">>,
                   <<"imagen_pagina", "2", "_", "2", ".", "png">> }

\* C8: an embedded image whose extraction, decoding, inversion or saving
\* fails is skipped with a logged error, and every other embedded image of
\* the same page and of the later pages is still extracted and written.
C8_FailedImageSkippedAndLogged ==
    /\ \A q \in DOMAIN imgLog :
         (imgLog[q].visited /\ ~imgLog[q].saved) =>
             \/ imgLog[q].logged
             \/ imgLog[q].extracted = "raise" /\ lastResult.reported
    /\ (pcB = "main" /\ lastResult.kind # "none") =>
         \A q \in DOMAIN imgLog : imgLog[q].visited

============================================================================
